---- MODULE Spec2Model ----
(***************************************************************************)
(* Model of lungmask's command line entry point, src/lungmask/__main__.py. *)
(* One run of main() is a sequential process: parse the arguments, check   *)
(* the output directory (series mode), load the input, run the inference   *)
(* engine, then either rebuild a masked DICOM series slice by slice or     *)
(* write the mask as one volume.                                           *)
(***************************************************************************)
EXTENDS Integers, Sequences, FiniteSets, TLC

(* ------------------------------ bounds -------------------------------- *)

\* Largest number of source slice files, and of mask slices, explored.
MaxSlices == 3
\* Number of samples of one slice.
NPix == 1

(* --------------------------- the environment -------------------------- *)

\* Label values the inference engine puts in a mask: 0 is background.
Labels == {0, 1, 2}

\* The empty string new_series_instance_UID starts as.
EmptyUID == 0

\* Identifiers are numbers: every slice of the source series carries this
\* series identifier, slice ind carries SOP identifier SrcSOPUID(ind).
SrcSeriesUID == 1

SrcSOPUID(i) == 10 + i

\* First value handed out by the identifier generator.
FirstFreshUID == 100

\* Intensity of sample p of source slice i: distinct over slices and
\* samples, never zero, of both signs.
SrcPixel(i, p) == IF i % 2 = 0 THEN 0 - (20 * i + p + 3) ELSE 20 * i + p + 3

\* Metadata keys a loaded volume may carry.
PatientNameKey == "0010|0010"
StudyUIDKey == "0020|000d"
SeriesUIDKey == "0020|000e"
SeriesDescriptionKey == "0008|103e"
WindowCenterKey == "0028|1050"
WindowWidthKey == "0028|1051"

\* The key sets of the volumes explored: no metadata, an allowed key only,
\* and an allowed key with two keys outside the allow-list, one of them a
\* tag the writer sets itself.
SourceKeySets ==
    { {},
      {PatientNameKey},
      {PatientNameKey, SeriesUIDKey, SeriesDescriptionKey} }

\* utils.get_DICOM_tags_to_keep(): patient and study identity are kept,
\* series and SOP identity are not.
DICOM_tags_to_keep == {PatientNameKey, StudyUIDKey}

\* utils.generate_instance_UID(existing): a value never handed out before
\* and carried by no source slice; nxt is the generator's next value.
generate_instance_UID(existing, nxt) == nxt

\* The file pydicom reads for slice ind of the source series.
DcmFile(i) ==
    [ SOPInstanceUID    |-> SrcSOPUID(i),
      SeriesInstanceUID |-> SrcSeriesUID,
      SeriesDescription |-> <<"source series", 0>>,
      WindowCenter      |-> 40,
      WindowWidth       |-> 400,
      PatientID         |-> <<"patient", 7>>,
      StudyInstanceUID  |-> 5,
      pixel_array       |-> [p \in 1..NPix |-> SrcPixel(i, p)] ]

(* ------------------------------ helpers ------------------------------- *)

RECURSIVE Str(_)
\* str(n) for n >= 0: the decimal digits, most significant first.
Str(n) == IF n < 10 THEN <<n>> ELSE Str(n \div 10) \o <<n % 10>>

RECURSIVE ZFill(_, _)
\* s.zfill(w): zeros on the left up to width w, never a truncation.
ZFill(s, w) == IF Len(s) >= w THEN s ELSE ZFill(<<0>> \o s, w)

RECURSIVE TruncLog10(_)
\* math.trunc(math.log10(x)) for x >= 1.
TruncLog10(x) == IF x < 10 THEN 0 ELSE 1 + TruncLog10(x \div 10)

\* math.log10 raises ValueError ("math domain error") unless x > 0.
Log10Defined(x) == x > 0

\* pad_needed of line 139, for a list of n files.
PadNeeded(n) == TruncLog10(n - 1) + 1

FileName_SameForAll(ind, pad) ==
    [prefix |-> "lung_masked_", index |-> <<0>>, suffix |-> ".dcm"]

\* The name of slice ind's output file below args.output.
FileName(ind, pad) ==
    [prefix |-> "lung_masked_", index |-> ZFill(Str(ind), pad), suffix |-> ".dcm"]

MaskedPixel_Multiply(m, v) == m * v

\* np.where(mask_array > 0, input_array, 0), one sample.
MaskedPixel(m, v) == IF m > 0 THEN v ELSE 0

OutArray(mask_array, input_array) ==
    [p \in 1..Len(input_array) |-> MaskedPixel(mask_array[p], input_array[p])]

OutputDirCheckFails_Never(am, isdir) == FALSE

\* Lines 89-90: the check that stops the run before any work.
OutputDirCheckFails(am, isdir) == am /\ ~isdir

NeedNewSeriesUID_Always(uid) == TRUE

\* Line 147: the series identifier is generated while it is still empty.
NeedNewSeriesUID(uid) == uid = EmptyUID

KeepKey_All(key) == TRUE

\* Line 182: the filter on the source's metadata keys.
KeepKey(key) == key \in DICOM_tags_to_keep

DcmRead_Anonymised(i, keep) ==
    IF keep THEN DcmFile(i)
    ELSE [DcmFile(i) EXCEPT !.PatientID = <<"", 0>>, !.StudyInstanceUID = 0]

\* Line 145: pyd.dcmread reads the whole file whatever the metadata toggle.
DcmRead(i, keep) == DcmFile(i)

SeriesSelected_Never(am) == FALSE

\* Line 132: the mode switch.
SeriesSelected(am) == am

\* sys.exit() without an argument ends the process with status 0.
SysExitNoArg == 0
\* sys.exit(<message>) prints the message and ends with status 1, as does an
\* uncaught exception.
SysExitMessage == 1
StillRunning == 0 - 1

(* ------------------------------- state -------------------------------- *)

VARIABLES
    inputExists,      \* os.path.exists(args.input)
    outputIsDir,      \* os.path.isdir(args.output)
    applymask,        \* --applymask
    removemetadata,   \* --removemetadata
    modelname,        \* --modelname
    modelpath,        \* --modelpath, "None" when absent
    pc,               \* where main() is
    keepmetadata,     \* line 99
    input_image,      \* what utils.load_input_image returned
    inferCalls,       \* calls made to the inference engine
    result,           \* the mask inferer.apply returned, one entry per slice
    volume_file_list, \* number of files of the source series
    pad_needed,
    new_series_instance_UID,
    ind,              \* loop index of line 143
    nextUID,          \* state of the identifier generator
    genLog,           \* calls made to the identifier generator
    written,          \* files of this run below args.output
    single_out,       \* the file the sitk writer produced, if any
    paths,            \* output paths entered
    errlog,           \* messages reported as errors
    exc,              \* the uncaught exception, "none" if none
    exitStatus

vars == <<inputExists, outputIsDir, applymask, removemetadata, modelname,
          modelpath, pc, keepmetadata, input_image, inferCalls, result,
          volume_file_list, pad_needed, new_series_instance_UID, ind, nextUID,
          genLog, written, single_out, paths, errlog, exc, exitStatus>>

argv == <<inputExists, outputIsDir, applymask, removemetadata, modelname, modelpath>>

\* --modelname and --modelpath: the default, and the one combination the
\* assertion of line 109 rejects.
ModelArgs == {<<"R231", "None">>, <<"LTRCLobes_R231", "weights.pth">>}

NoImage == [loaded |-> FALSE, files |-> 0, meta |-> <<>>]
NoFile == [exists |-> FALSE, meta |-> <<>>, array |-> <<>>]

Init ==
    /\ inputExists \in BOOLEAN
    /\ outputIsDir \in BOOLEAN
    /\ applymask \in BOOLEAN
    /\ removemetadata \in BOOLEAN
    /\ \E ma \in ModelArgs : modelname = ma[1] /\ modelpath = ma[2]
    /\ pc = "parse"
    /\ keepmetadata = FALSE
    /\ input_image = NoImage
    /\ inferCalls = <<>>
    /\ result = <<>>
    /\ volume_file_list = 0
    /\ pad_needed = 0
    /\ new_series_instance_UID = EmptyUID
    /\ ind = 0
    /\ nextUID = FirstFreshUID
    /\ genLog = <<>>
    /\ written = {}
    /\ single_out = NoFile
    /\ paths = {}
    /\ errlog = <<>>
    /\ exc = "none"
    /\ exitStatus = StillRunning

\* The process ends: normally, by sys.exit, or by an uncaught exception.
Exit(status) ==
    /\ pc' = "done"
    /\ exitStatus' = status

Raise(e) ==
    /\ pc' = "done"
    /\ exc' = e
    /\ exitStatus' = SysExitMessage

(* ------------------------------ actions ------------------------------- *)

\* Lines 15-19 and 86-87: parse_args runs path() on the input argument.
ParseArgs ==
    /\ pc = "parse"
    /\ IF inputExists
         THEN /\ pc' = "check"
              /\ UNCHANGED <<errlog, exitStatus>>
         ELSE /\ errlog' = Append(errlog, "File not found")
              /\ Exit(SysExitMessage)
    /\ UNCHANGED <<argv, keepmetadata, input_image, inferCalls, result,
                   volume_file_list, pad_needed, new_series_instance_UID, ind,
                   nextUID, genLog, written, single_out, paths, exc>>

\* Lines 89-92.
CheckOutputDir ==
    /\ pc = "check"
    /\ IF OutputDirCheckFails(applymask, outputIsDir)
         THEN /\ errlog' = Append(errlog, "output must be an existing directory")
              /\ Exit(SysExitNoArg)
         ELSE /\ pc' = "load"
              /\ UNCHANGED <<errlog, exitStatus>>
    /\ UNCHANGED <<argv, keepmetadata, input_image, inferCalls, result,
                   volume_file_list, pad_needed, new_series_instance_UID, ind,
                   nextUID, genLog, written, single_out, paths, exc>>

\* Lines 94-105: the loader returns a volume backed by n slice files, with
\* whatever metadata it chose to read.
LoadInput ==
    /\ pc = "load"
    /\ keepmetadata' = ~removemetadata
    /\ \E n \in 0..MaxSlices, keys \in SourceKeySets :
          input_image' = [loaded |-> TRUE, files |-> n,
                          meta |-> [k \in keys |-> <<"source", k>>]]
    /\ pc' = "infer"
    /\ UNCHANGED <<argv, inferCalls, result, volume_file_list, pad_needed,
                   new_series_instance_UID, ind, nextUID, genLog, written,
                   single_out, paths, errlog, exc, exitStatus>>

\* Lines 107-130: the assertion, then LMInferer(...) and inferer.apply.
Infer ==
    /\ pc = "infer"
    /\ IF modelname = "LTRCLobes_R231" /\ modelpath # "None"
         THEN /\ Raise("AssertionError")
              /\ UNCHANGED <<inferCalls, result>>
         ELSE /\ inferCalls' = inferCalls \o <<"LMInferer", "apply">>
              /\ \E m \in 0..MaxSlices :
                    \E mask \in [1..m -> [1..NPix -> Labels]] : result' = mask
              /\ pc' = "dispatch"
              /\ UNCHANGED <<exc, exitStatus>>
    /\ UNCHANGED <<argv, keepmetadata, input_image, volume_file_list, pad_needed,
                   new_series_instance_UID, ind, nextUID, genLog, written,
                   single_out, paths, errlog>>

\* Lines 132-141: the file list and the width of the file names.
SeriesInit ==
    /\ pc = "dispatch"
    /\ SeriesSelected(applymask)
    /\ paths' = paths \cup {"series"}
    /\ volume_file_list' = input_image.files
    /\ IF Log10Defined(input_image.files - 1)
         THEN /\ pad_needed' = PadNeeded(input_image.files)
              /\ new_series_instance_UID' = EmptyUID
              /\ ind' = 0
              /\ pc' = "loop"
              /\ UNCHANGED <<exc, exitStatus>>
         ELSE /\ Raise("ValueError")
              /\ UNCHANGED <<pad_needed, new_series_instance_UID, ind>>
    /\ UNCHANGED <<argv, keepmetadata, input_image, inferCalls, result, nextUID,
                   genLog, written, single_out, errlog>>

\* Lines 147-153: the identifiers of slice i, given the series identifier so
\* far and the generator's state. The series identifier is generated first,
\* from the slice's own series identifier, then the SOP identifier.
SliceUIDs(i, ds, uid, nxt) ==
    LET fresh  == NeedNewSeriesUID(uid)
        series == IF fresh THEN generate_instance_UID(ds.SeriesInstanceUID, nxt) ELSE uid
        nxt2   == IF fresh THEN nxt + 1 ELSE nxt
        sop    == generate_instance_UID(ds.SOPInstanceUID, nxt2)
        calls  == (IF fresh
                     THEN <<[kind |-> "series", ind |-> i,
                             from |-> ds.SeriesInstanceUID, uid |-> series]>>
                     ELSE <<>>)
                  \o <<[kind |-> "sop", ind |-> i,
                        from |-> ds.SOPInstanceUID, uid |-> sop]>>
    IN  [series |-> series, sop |-> sop, nxt |-> nxt2 + 1, calls |-> calls]

\* Lines 151-163: the dataset as it is saved.
NewSlice(ds, ids, mask_array) ==
    [ds EXCEPT !.SOPInstanceUID    = ids.sop,
               !.SeriesDescription = <<"Lung segmented on series ", ds.SeriesInstanceUID>>,
               !.SeriesInstanceUID = ids.series,
               !.WindowCenter      = 0 - 700,
               !.WindowWidth       = 700,
               !.pixel_array       = OutArray(mask_array, ds.pixel_array)]

\* The generator was called at lines 148 and 151.
Generated(ids) ==
    /\ new_series_instance_UID' = ids.series
    /\ nextUID' = ids.nxt
    /\ genLog' = genLog \o ids.calls

\* Lines 143-164, one iteration that runs to its end.
SeriesSlice ==
    /\ pc = "loop"
    /\ ind < volume_file_list
    /\ ind < Len(result)
    /\ LET ds  == DcmRead(ind, keepmetadata)
           ids == SliceUIDs(ind, ds, new_series_instance_UID, nextUID)
           name == FileName(ind, pad_needed)
       IN  /\ Generated(ids)
           /\ written' = {f \in written : f.name # name}
                           \cup {[name |-> name, complete |-> TRUE,
                                  ds |-> NewSlice(ds, ids, result[ind + 1])]}
    /\ ind' = ind + 1
    /\ UNCHANGED <<argv, pc, keepmetadata, input_image, inferCalls, result,
                   volume_file_list, pad_needed, single_out, paths, errlog, exc,
                   exitStatus>>

\* Line 160: the mask has no slice ind, result[ind] raises IndexError.
SliceIndexError ==
    /\ pc = "loop"
    /\ ind < volume_file_list
    /\ ind >= Len(result)
    /\ LET ds == DcmRead(ind, keepmetadata)
       IN  Generated(SliceUIDs(ind, ds, new_series_instance_UID, nextUID))
    /\ Raise("IndexError")
    /\ UNCHANGED <<argv, keepmetadata, input_image, inferCalls, result,
                   volume_file_list, pad_needed, ind, written, single_out, paths,
                   errlog>>

\* Line 145 or line 159: the codec fails to read the file or to decode its
\* pixel data; nothing catches the exception.
SliceReadFail ==
    /\ pc = "loop"
    /\ ind < volume_file_list
    /\ \/ UNCHANGED <<new_series_instance_UID, nextUID, genLog>>
       \/ LET ds == DcmRead(ind, keepmetadata)
          IN  Generated(SliceUIDs(ind, ds, new_series_instance_UID, nextUID))
    /\ Raise("CodecReadError")
    /\ UNCHANGED <<argv, keepmetadata, input_image, inferCalls, result,
                   volume_file_list, pad_needed, ind, written, single_out, paths,
                   errlog>>

\* Line 164: save_as fails; the file is either not created or left behind
\* incomplete. Nothing catches the exception.
SliceWriteFail ==
    /\ pc = "loop"
    /\ ind < volume_file_list
    /\ ind < Len(result)
    /\ LET ds  == DcmRead(ind, keepmetadata)
           ids == SliceUIDs(ind, ds, new_series_instance_UID, nextUID)
           name == FileName(ind, pad_needed)
       IN  /\ Generated(ids)
           /\ \/ UNCHANGED written
              \/ written' = {f \in written : f.name # name}
                              \cup {[name |-> name, complete |-> FALSE,
                                     ds |-> NewSlice(ds, ids, result[ind + 1])]}
    /\ Raise("CodecWriteError")
    /\ UNCHANGED <<argv, keepmetadata, input_image, inferCalls, result,
                   volume_file_list, pad_needed, ind, single_out, paths, errlog>>

\* Line 166: the loop is over, sys.exit().
SeriesExit ==
    /\ pc = "loop"
    /\ ind >= volume_file_list
    /\ Exit(SysExitNoArg)
    /\ UNCHANGED <<argv, keepmetadata, input_image, inferCalls, result,
                   volume_file_list, pad_needed, new_series_instance_UID, ind,
                   nextUID, genLog, written, single_out, paths, errlog, exc>>

\* Lines 186-190: the tags set on every volume that keeps metadata.
FixedTags ==
    (SeriesDescriptionKey :> <<"fixed", "Created with lungmask">>)
        @@ (WindowCenterKey :> <<"fixed", "1">>)
        @@ (WindowWidthKey :> <<"fixed", "2">>)

\* Lines 174-190: the metadata of the written volume.
OutMeta(src, keep) ==
    IF keep
      THEN FixedTags @@ [k \in {x \in DOMAIN src : KeepKey(x)} |-> src[k]]
      ELSE <<>>

\* Lines 168-193: the mask written as one volume, then main() returns.
SingleWrite ==
    /\ pc = "dispatch"
    /\ ~SeriesSelected(applymask)
    /\ paths' = paths \cup {"single"}
    /\ \/ /\ single_out' = [exists |-> TRUE,
                            meta |-> OutMeta(input_image.meta, keepmetadata),
                            array |-> result]
          /\ Exit(SysExitNoArg)
          /\ UNCHANGED exc
       \/ /\ Raise("WriterError")
          /\ UNCHANGED single_out
    /\ UNCHANGED <<argv, keepmetadata, input_image, inferCalls, result,
                   volume_file_list, pad_needed, new_series_instance_UID, ind,
                   nextUID, genLog, written, errlog>>

Next ==
    \/ ParseArgs
    \/ CheckOutputDir
    \/ LoadInput
    \/ Infer
    \/ SeriesInit
    \/ SeriesSlice
    \/ SliceIndexError
    \/ SliceReadFail
    \/ SliceWriteFail
    \/ SeriesExit
    \/ SingleWrite

Spec == Init /\ [][Next]_vars

(* ------------------------------ properties --------------------------- *)

\* Number of files of the source series, once loaded.
N == input_image.files

SeriesMode == "series" \in paths

\* main() went through the whole series loop and left by line 166.
SeriesSucceeded == SeriesMode /\ pc = "done" /\ exc = "none"

\* The output file of slice i, if there is one.
FilesOf(i) == {f \in written : f.name = FileName(i, pad_needed)}

\* The identifier the generator returned for slice i's SOP identifier.
SopCalls(i) == {c \in 1..Len(genLog) : genLog[c].kind = "sop" /\ genLog[c].ind = i}

SeriesCalls == {c \in 1..Len(genLog) : genLog[c].kind = "series"}

\* C1: in series mode with an output argument that is no existing directory,
\* the run ends with an error reported, the inference engine is never
\* constructed nor applied and no output file is written: main() is only ever
\* parsing, checking or finished.
C1_FailFastNoInference ==
    (applymask /\ ~outputIsDir) =>
        /\ inferCalls = <<>>
        /\ written = {}
        /\ ~single_out.exists
        /\ pc \in {"parse", "check", "done"}
        /\ pc = "done" => errlog # <<>> /\ paths = {}

C1_Witness ==
    /\ applymask /\ ~outputIsDir /\ inputExists
    /\ pc = "done"
    /\ errlog = <<"output must be an existing directory">>

\* C2: the exit status is non-zero whenever the series-mode output directory
\* check fails, and zero after either output path completes.
C2_ExitStatus ==
    pc = "done" =>
        /\ (inputExists /\ applymask /\ ~outputIsDir) => exitStatus # 0
        /\ (SeriesSucceeded \/ single_out.exists) => exitStatus = 0

\* C3: after a successful series reconstruction over N >= 1 slices there are
\* exactly N files, one per slice index; all carry one series identifier,
\* generated by exactly one call made on the first slice and different from
\* the source's; no two files share a SOP identifier.
C3_SeriesIdentity ==
    (SeriesSucceeded /\ N >= 1) =>
        /\ Cardinality(written) = N
        /\ \A i \in 0..(N - 1) : Cardinality(FilesOf(i)) = 1
        /\ \A f \in written : f.complete
        /\ \A f, g \in written :
              /\ f.ds.SeriesInstanceUID = g.ds.SeriesInstanceUID
              /\ f # g => f.ds.SOPInstanceUID # g.ds.SOPInstanceUID
        /\ \A f \in written :
              /\ f.ds.SeriesInstanceUID = new_series_instance_UID
              /\ f.ds.SeriesInstanceUID \notin {EmptyUID, SrcSeriesUID}
        /\ Cardinality(SeriesCalls) = 1
        /\ \A c \in SeriesCalls : genLog[c].ind = 0 /\ genLog[c].from = SrcSeriesUID

C3_Witness ==
    /\ SeriesSucceeded
    /\ N >= 3
    /\ Cardinality(written) = N

\* C4: for every N >= 1 the width computation completes without error and
\* gives 1 for N <= 1 and floor(log10(N-1)) + 1 otherwise, so that all file
\* names have the same length.
C4_WidthComputed ==
    (SeriesMode /\ N >= 1) =>
        /\ exc # "ValueError"
        /\ pad_needed = (IF N <= 1 THEN 1 ELSE TruncLog10(N - 1) + 1)
        /\ \A f \in written : Len(f.name.index) = pad_needed

\* C5: in series mode a mask whose slice count differs from the number of
\* source slices is rejected before any output file is written: no file is
\* ever written and the run never ends as a success.
C5_ShapeMismatchRejected ==
    (SeriesMode /\ Len(result) # N) =>
        /\ written = {}
        /\ ~SeriesSucceeded

\* C6: every sample p of the output file of slice i is the source intensity
\* of slice i at p where mask slice i is positive at p, and 0 where it is 0.
C6_MaskedPixels ==
    \A f \in written :
        \E i \in 0..(N - 1) :
            /\ f.name = FileName(i, pad_needed)
            /\ i < Len(result)
            /\ \A p \in 1..NPix :
                  f.ds.pixel_array[p] =
                      (IF result[i + 1][p] > 0 THEN SrcPixel(i, p) ELSE 0)

C6_Witness ==
    /\ SeriesSucceeded
    /\ \E f, g \in written :
          /\ f.name = FileName(0, pad_needed)
          /\ g.name = FileName(1, pad_needed)
          /\ result[1][1] = 0 /\ f.ds.pixel_array[1] = 0
          /\ result[2][1] = 2 /\ g.ds.pixel_array[1] = SrcPixel(1, 1)

\* C7: the volume written in single-volume mode carries no metadata key when
\* keepmetadata is false; when it is true its keys are exactly the source's
\* keys that are on the allow-list, plus the fixed display tags (series
\* description, window center and width).
C7_SingleVolumeKeys ==
    single_out.exists =>
        DOMAIN single_out.meta =
            (IF keepmetadata
               THEN (DOMAIN input_image.meta \cap DICOM_tags_to_keep)
                        \cup {SeriesDescriptionKey, WindowCenterKey, WindowWidthKey}
               ELSE {})

C7_Witness ==
    /\ single_out.exists
    /\ keepmetadata
    /\ DOMAIN input_image.meta = {PatientNameKey, SeriesUIDKey, SeriesDescriptionKey}
    /\ DOMAIN single_out.meta =
          {PatientNameKey, SeriesDescriptionKey, WindowCenterKey, WindowWidthKey}

C7_WitnessNoMetadata ==
    /\ single_out.exists
    /\ ~keepmetadata
    /\ DOMAIN input_image.meta # {}
    /\ DOMAIN single_out.meta = {}

\* C8: once the inference engine has returned, main() enters exactly one
\* output path, the series path when --applymask is set and the single
\* volume path otherwise, never both and never neither, and the process
\* ends: every state before the end has a next step.
C8_ExactlyOnePath ==
    /\ Cardinality(paths) <= 1
    /\ pc # "done" => ENABLED Next
    /\ inferCalls # <<>> =>
          /\ pc = "dispatch" => paths = {}
          /\ pc \in {"loop", "done"} =>
                paths = {IF applymask THEN "series" ELSE "single"}
          /\ single_out.exists => ~applymask /\ written = {} /\ pc = "done"
          /\ written # {} => applymask /\ ~single_out.exists

C8_Witness ==
    /\ pc = "done"
    /\ applymask
    /\ paths = {"series"}
    /\ written # {}
    /\ exitStatus = 0

\* C9: when the codec fails to read or write slice k the run stops there: it
\* has ended with an exception and a non-zero status and takes no further
\* step, the files of slices 0..k-1 are on disk as they were written, and no
\* complete file exists for any index >= k.
C9_AbortAtFailedSlice ==
    exc \in {"CodecReadError", "CodecWriteError"} =>
        /\ pc = "done" /\ exitStatus # 0 /\ ~ENABLED Next
        /\ ~SeriesSucceeded
        /\ \A i \in 0..(ind - 1) :
              \E f \in written :
                 /\ f.name = FileName(i, pad_needed)
                 /\ f.complete
                 /\ \E c \in SopCalls(i) : f.ds.SOPInstanceUID = genLog[c].uid
        /\ \A i \in ind..MaxSlices : \A f \in FilesOf(i) : ~f.complete /\ i = ind
        /\ Cardinality({f \in written : f.complete}) = ind

C9_Witness ==
    /\ exc = "CodecWriteError"
    /\ ind = 2
    /\ Cardinality(written) = 3

\* C10: whatever --removemetadata says, the output file of slice i equals the
\* source file of slice i in every field but the SOP identifier, the series
\* identifier, the series description, the window center and width and the
\* pixel data.
Overwritten(ds) ==
    [ds EXCEPT !.SOPInstanceUID = 0, !.SeriesInstanceUID = 0,
               !.SeriesDescription = 0, !.WindowCenter = 0, !.WindowWidth = 0,
               !.pixel_array = 0]

====
